---- MODULE Spec2Model ----
(***************************************************************************)
(* Model of the TON price oracle: the lifecycle controller OracleBase      *)
(* (start / stop / forceUpdate / scheduleUpdates / performUpdate) and the  *)
(* price engine PriceOracle (fetchData / validateData / processData /      *)
(* submitToBlockchain and their helpers), both in src/generate-wallet.js.  *)
(*                                                                         *)
(* Numbers.  Observed prices are positive integers (price ticks).  Values  *)
(* the code computes by division (mean, median, average) are kept as exact *)
(* fractions [num, den]; a comparison of quotients is done by cross        *)
(* multiplication, and a comparison against a standard deviation by        *)
(* comparing squares.  IEEE NaN is modelled where the code can produce it  *)
(* (0 / 0 in removeOutliers): every comparison with NaN is false.          *)
(*                                                                         *)
(* Scheduling.  Node runs one callback at a time; a handler is interrupted *)
(* only where it awaits I/O.  performUpdate awaits I/O in the fetch stage  *)
(* and in the ledger submission, so one cycle is three steps: the fetch    *)
(* returns, the data is validated / aggregated / gated, the ledger         *)
(* answers.  start(), stop(), forceUpdate() and timer callbacks may run    *)
(* between these steps.                                                    *)
(*                                                                         *)
(* Time.  The clock is read in units of config.updateInterval: it moves on *)
(* by one when a timeout comes due; the I/O of a cycle takes less than a   *)
(* unit.                                                                   *)
(***************************************************************************)
EXTENDS Integers, Sequences, FiniteSets, TLC

VARIABLES
    priceConfig,    \* PriceOracle.priceConfig: the configuration given at construction
    isRunning,      \* OracleBase.isRunning
    updateTimer,    \* OracleBase.updateTimer: the last handle setTimeout returned, or NoTimer
    timers,         \* the handles of the timeouts that are armed and have not fired or been cleared
    errorCount,     \* OracleBase.errorCount
    totalUpdates,   \* OracleBase.totalUpdates
    lastPrices,     \* PriceOracle.lastPrices: pair key -> aggregated value
    cycles,         \* the invocations of performUpdate, in the order they began
    lastUpdateTime, \* OracleBase.lastUpdateTime
    now,            \* the clock Date.now() reads, in units of config.updateInterval
    call            \* the last direct call of a helper of PriceOracle: its arguments and result

vars == <<priceConfig, isRunning, updateTimer, timers, errorCount, totalUpdates,
          lastPrices, cycles, lastUpdateTime, now, call>>

-----------------------------------------------------------------------------
(* Bounds of the model and constants of the program *)

\* performUpdate is invoked at most MaxCycles times in one behaviour
MaxCycles == 3

\* the longest group handed to removeOutliers in a direct call
MaxGroup == 5

\* the longest list of values handed to calculateMedian in a direct call
MaxValues == 3

\* the longest list of observations handed to calculateWeightedAverage in a direct call
MaxWeighted == 2

\* the longest list of observations handed to calculateConfidence or validateData
\* in a direct call
MaxDirect == 3

\* the longest a cycle's I/O is let to take, in units of config.updateInterval
MaxDuration == 2

\* the largest MAX_RETRIES the TON client is configured with
MaxTransferRetries == 4

\* the largest attempt number handed to calculateRetryDelay in a direct call
MaxAttempt == 7

\* PriceOracle's constructor: retryAttempts: 3
retryAttempts == 3

\* priceConfig.maxPriceAge (MAX_PRICE_AGE, 300 seconds by default) in units of
\* config.updateInterval (UPDATE_INTERVAL, 300 seconds by default)
maxPriceAge == 1

\* Date.now() when the oracle is constructed, in units of config.updateInterval:
\* the epoch, which lastUpdateTime = 0 names, lies far more than two units back
StartTime == 10

\* updateTimer = undefined
NoTimer == 0

\* a source whose fetchPrice threw gives no observation
FetchFailed == 0

\* no helper has been called directly
NoCall == [fn |-> "none"]

-----------------------------------------------------------------------------
(* Configuration: trading pairs and sources *)

\* priceConfig.supportedPairs, in configuration order
supportedPairs ==
    << [key |-> "BTC/USD", isActive |-> TRUE, minPrice |-> 1000, maxPrice |-> 1000000],
       [key |-> "ETH/USD", isActive |-> TRUE, minPrice |-> 100,  maxPrice |-> 100000] >>

\* the keys of PriceOracle.dataSources, in insertion order
dataSources == << "coingecko", "binance", "coinmarketcap" >>

PairKeys == { supportedPairs[i].key : i \in 1..Len(supportedPairs) }

Sources == { dataSources[i] : i \in 1..Len(dataSources) }

\* this.supportedPairs.find(p => `${p.base}/${p.quote}` === pairKey)
FindPair(pairKey) ==
    LET idx == { i \in 1..Len(supportedPairs) : supportedPairs[i].key = pairKey }
    IN  IF idx = {} THEN [key |-> "", isActive |-> FALSE, minPrice |-> 0, maxPrice |-> 0]
        ELSE supportedPairs[CHOOSE i \in idx : \A j \in idx : i <= j]

-----------------------------------------------------------------------------
(* Arithmetic helpers *)

Abs(x) == IF x < 0 THEN -x ELSE x

RECURSIVE Gcd(_, _)
Gcd(a, b) == IF b = 0 THEN a ELSE Gcd(b, a % b)

\* the fraction n / d (d > 0) in lowest terms
Frac(n, d) ==
    LET g == Gcd(Abs(n), d)
    IN  IF g = 0 THEN [num |-> 0, den |-> 1] ELSE [num |-> n \div g, den |-> d \div g]

RECURSIVE SumSeq(_)
SumSeq(s) == IF s = <<>> THEN 0 ELSE Head(s) + SumSeq(Tail(s))

RECURSIVE Insert(_, _)
Insert(x, s) ==
    IF s = <<>> THEN <<x>>
    ELSE IF x <= Head(s) THEN <<x>> \o s ELSE <<Head(s)>> \o Insert(x, Tail(s))

\* [...values].sort((a, b) => a - b)
RECURSIVE SortAsc(_)
SortAsc(s) == IF s = <<>> THEN <<>> ELSE Insert(Head(s), SortAsc(Tail(s)))

\* data.map(d => d.value.price)
PricesOf(data) == [i \in 1..Len(data) |-> data[i].price]

-----------------------------------------------------------------------------
(* PriceOracle: the fetch stage *)

\* the (pair, source) requests of one fetchData call, in the order of its two loops
RECURSIVE FetchSlots(_, _)
FetchSlots(p, s) ==
    IF p > Len(supportedPairs) THEN <<>>
    ELSE IF s > Len(dataSources) THEN FetchSlots(p + 1, 1)
         ELSE <<[pair |-> p, source |-> s]>> \o FetchSlots(p, s + 1)

\* the requests fetchData makes: the slots of the active pairs (an inactive pair
\* is skipped by continue)
ActiveSlots == SelectSeq(FetchSlots(1, 1), LAMBDA slot : supportedPairs[slot.pair].isActive)

\* the timestamp a fetcher puts on its PriceData: CoinGeckoFetcher and
\* BinanceFetcher take Date.now(), CoinMarketCapFetcher takes the last_updated
\* the server reported
StampOf(src, lastUpdated) == IF src = "coinmarketcap" THEN lastUpdated ELSE now

\* fetchData: resp[pairKey][source] is the price source.fetchPrice returned, or
\* FetchFailed when it threw; an inactive pair is skipped, a failed source is
\* logged and leaves no observation; fetchData itself never throws
RECURSIVE CollectPrices(_, _, _)
CollectPrices(slots, resp, lastUpdated) ==
    IF slots = <<>> THEN <<>>
    ELSE LET pair == supportedPairs[Head(slots).pair]
             src  == dataSources[Head(slots).source]
             rest == CollectPrices(Tail(slots), resp, lastUpdated)
         IN  IF ~pair.isActive \/ resp[pair.key][src] = FetchFailed THEN rest
             ELSE <<[pair |-> pair.key, source |-> src, price |-> resp[pair.key][src],
                     timestamp |-> StampOf(src, lastUpdated)]>> \o rest

fetchData(resp, lastUpdated) == CollectPrices(FetchSlots(1, 1), resp, lastUpdated)

-----------------------------------------------------------------------------
(* PriceOracle: private helpers *)

\* the keys of the Map groupDataByPair builds, in insertion order
RECURSIVE GroupKeys(_, _)
GroupKeys(data, seen) ==
    IF data = <<>> THEN <<>>
    ELSE IF Head(data).pair \in seen THEN GroupKeys(Tail(data), seen)
         ELSE <<Head(data).pair>> \o GroupKeys(Tail(data), seen \cup {Head(data).pair})

\* groupDataByPair: the entries [key, data] of the Map, in insertion order; a pair
\* with no observation has no entry
groupDataByPair(data) ==
    LET keys == GroupKeys(data, {})
    IN  [i \in 1..Len(keys) |->
            [key |-> keys[i], data |-> SelectSeq(data, LAMBDA d : d.pair = keys[i])]]

\* calculateStandardDeviation, kept exact: with n values of sum S the variance is
\* SquaredDiffs / n^3 where SquaredDiffs = sum of (n * v - S)^2; the standard
\* deviation is its square root, and is 0 exactly when SquaredDiffs is 0
SquaredDiffs(values) ==
    LET n == Len(values)
        S == SumSeq(values)
    IN  SumSeq([i \in 1..n |-> (n * values[i] - S) * (n * values[i] - S)])

\* ZScoreWithin in which a z-score equal to the threshold is not within it
ZScoreBelow(price, prices, threshold) ==
    LET n == Len(prices)
        S == SumSeq(prices)
        q == SquaredDiffs(prices)
    IN  /\ q # 0
        /\ n * (n * price - S) * (n * price - S) < threshold * threshold * q

\* Math.abs((price - mean) / stdDev) <= threshold.  When stdDev = 0 every price
\* equals the mean, the quotient is 0 / 0 = NaN and the comparison is false.
\* Otherwise zScore^2 = n * (n * price - S)^2 / SquaredDiffs.
ZScoreWithin(price, prices, threshold) ==
    LET n == Len(prices)
        S == SumSeq(prices)
        q == SquaredDiffs(prices)
    IN  /\ q # 0
        /\ n * (n * price - S) * (n * price - S) <= threshold * threshold * q

\* removeOutliers with the threshold lowered by 1
removeOutliersTighter(data) ==
    IF Len(data) <= 2 THEN data
    ELSE LET prices == PricesOf(data)
         IN  SelectSeq(data, LAMBDA d :
                 ZScoreWithin(d.price, prices, priceConfig.outlierThreshold - 1))

\* removeOutliers without the early return for short groups
removeOutliersUnguarded(data) ==
    LET prices == PricesOf(data)
    IN  SelectSeq(data, LAMBDA d :
            ZScoreWithin(d.price, prices, priceConfig.outlierThreshold))

\* removeOutliers
removeOutliers(data) ==
    IF Len(data) <= 2 THEN data
    ELSE LET prices == PricesOf(data)
         IN  SelectSeq(data, LAMBDA d :
                 ZScoreWithin(d.price, prices, priceConfig.outlierThreshold))

\* calculateMedian without the sort
calculateMedianUnsorted(values) ==
    LET mid == Len(values) \div 2
    IN  IF Len(values) % 2 = 0 THEN Frac(values[mid] + values[mid + 1], 2)
        ELSE Frac(values[mid + 1], 1)

\* calculateMedian
calculateMedian(values) ==
    LET sorted == SortAsc(values)
        mid    == Len(sorted) \div 2
    IN  IF Len(sorted) % 2 = 0 THEN Frac(sorted[mid] + sorted[mid + 1], 2)
        ELSE Frac(sorted[mid + 1], 1)

\* sourceConfig?.weight || 1: a weight of 0 counts as 1
WeightOf(source) ==
    IF source \in DOMAIN priceConfig.weights /\ priceConfig.weights[source] # 0
    THEN priceConfig.weights[source] ELSE 1

\* calculateWeightedAverage
calculateWeightedAverage(data) ==
    LET totalWeight == SumSeq([i \in 1..Len(data) |-> WeightOf(data[i].source)])
        weightedSum == SumSeq([i \in 1..Len(data) |-> data[i].price * WeightOf(data[i].source)])
    IN  IF totalWeight > 0 THEN Frac(weightedSum, totalWeight) ELSE Frac(0, 1)

\* fractions compared by cross multiplication (denominators are positive)
FracLeq(x, y) == x.num * y.den <= y.num * x.den

\* the number a - sqrt(b), a and b being fractions: what calculateConfidence
\* returns, a standard deviation being a square root
Surd(a, b) == [a |-> a, b |-> b]

\* calculateConfidence's two operands, for data that is not empty and prices that
\* are positive: baseConfidence = min(n / minSourcesRequired, 1) * 100 and the
\* square of variancePenalty = min(coefficient * 50, 30), where
\* coefficient^2 = (stdDev / mean)^2 = SquaredDiffs / (n * S^2)
ConfidenceOperands(data) ==
    LET n        == Len(data)
        S        == SumSeq(PricesOf(data))
        uncapped == Frac(2500 * SquaredDiffs(PricesOf(data)), n * S * S)
    IN  [base      |-> IF n >= priceConfig.minSourcesRequired THEN Frac(100, 1)
                       ELSE Frac(100 * n, priceConfig.minSourcesRequired),
         penaltySq |-> IF FracLeq(uncapped, Frac(900, 1)) THEN uncapped ELSE Frac(900, 1)]

\* calculateConfidence without Math.max(..., 0)
calculateConfidenceUnclamped(data) ==
    Surd(ConfidenceOperands(data).base, ConfidenceOperands(data).penaltySq)

\* calculateConfidence: Math.max(baseConfidence - variancePenalty, 0); the
\* difference is at most 0 when baseConfidence^2 <= variancePenalty^2
calculateConfidence(data) ==
    LET o == ConfidenceOperands(data)
    IN  IF o.base.num * o.base.num * o.penaltySq.den
               <= o.penaltySq.num * o.base.den * o.base.den
        THEN Surd(Frac(0, 1), Frac(0, 1))
        ELSE Surd(o.base, o.penaltySq)

\* aggregatePrices (data is not empty)
aggregatePrices(data) ==
    LET prices == PricesOf(data)
    IN  [pair        |-> data[1].pair,
         price       |-> CASE priceConfig.aggregationMethod = "median" ->
                                  calculateMedian(prices)
                           [] priceConfig.aggregationMethod = "weighted" ->
                                  calculateWeightedAverage(data)
                           [] OTHER -> Frac(SumSeq(prices), Len(prices)),
         sourceCount |-> Len(data),
         outliers    |-> <<>>]

\* shouldUpdate in which a move of exactly the threshold does not count
shouldUpdateAboveOnly(oldPrice, newPrice) ==
    Abs(newPrice.num * oldPrice.den - oldPrice.num * newPrice.den) * 100
        > priceConfig.deviationThreshold * newPrice.den * oldPrice.num

\* shouldUpdate: Math.abs((newPrice - oldPrice) / oldPrice) * 100 >= deviationThreshold,
\* prices being positive fractions and the threshold a whole percentage
shouldUpdate(oldPrice, newPrice) ==
    Abs(newPrice.num * oldPrice.den - oldPrice.num * newPrice.den) * 100
        >= priceConfig.deviationThreshold * newPrice.den * oldPrice.num

-----------------------------------------------------------------------------
(* PriceOracle: validateData, processData, submitToBlockchain *)

\* RangeErrors in which a price equal to minPrice or maxPrice is out of range
RECURSIVE RangeErrorsExclusive(_, _)
RangeErrorsExclusive(data, pair) ==
    IF data = <<>> THEN <<>>
    ELSE (IF Head(data).price <= pair.minPrice \/ Head(data).price >= pair.maxPrice
          THEN <<[kind |-> "range", pair |-> pair.key]>> ELSE <<>>)
         \o RangeErrorsExclusive(Tail(data), pair)

\* the errors validateData pushes for one entry of the grouped data
RECURSIVE RangeErrors(_, _)
RangeErrors(data, pair) ==
    IF data = <<>> THEN <<>>
    ELSE (IF Head(data).price < pair.minPrice \/ Head(data).price > pair.maxPrice
          THEN <<[kind |-> "range", pair |-> pair.key]>> ELSE <<>>)
         \o RangeErrors(Tail(data), pair)

GroupErrors(entry) ==
    LET pair == FindPair(entry.key)
    IN  IF pair.key = "" THEN <<[kind |-> "unsupported", pair |-> entry.key]>>
        ELSE IF Len(entry.data) < priceConfig.minSourcesRequired
             THEN <<[kind |-> "insufficient", pair |-> entry.key]>>
             ELSE RangeErrors(entry.data, pair)

RECURSIVE CollectErrors(_)
CollectErrors(groups) ==
    IF groups = <<>> THEN <<>> ELSE GroupErrors(Head(groups)) \o CollectErrors(Tail(groups))

\* now - priceData.timestamp > maxPriceAge * 1000
IsStale(d) == now - d.timestamp > maxPriceAge

RECURSIVE StaleWarnings(_, _)
StaleWarnings(data, pair) ==
    IF data = <<>> THEN <<>>
    ELSE (IF IsStale(Head(data))
          THEN <<[kind |-> "stale", pair |-> pair.key, source |-> Head(data).source]>>
          ELSE <<>>)
         \o StaleWarnings(Tail(data), pair)

\* deviationPercent > outlierThreshold * 10, that is stdDev / mean > T / 10, or
\* 100 * SquaredDiffs > T^2 * n * S^2 (x > y * S is (x - 1) \div S >= y)
HighDeviation(prices) ==
    LET n == Len(prices)
        S == SumSeq(prices)
        q == SquaredDiffs(prices)
    IN  /\ q > 0
        /\ (100 * q - 1) \div S
               >= priceConfig.outlierThreshold * priceConfig.outlierThreshold * n * S

\* the warnings of one entry: none when the loop continues after an error
GroupWarnings(entry) ==
    LET pair == FindPair(entry.key)
    IN  IF pair.key = "" \/ Len(entry.data) < priceConfig.minSourcesRequired THEN <<>>
        ELSE StaleWarnings(entry.data, pair)
             \o (IF HighDeviation(PricesOf(entry.data))
                 THEN <<[kind |-> "deviation", pair |-> entry.key, source |-> ""]>> ELSE <<>>)

RECURSIVE CollectWarnings(_)
CollectWarnings(groups) ==
    IF groups = <<>> THEN <<>>
    ELSE GroupWarnings(Head(groups)) \o CollectWarnings(Tail(groups))

\* validateData in which a price out of range does not make the data invalid
validateDataRangeIgnored(data) ==
    LET errors == CollectErrors(groupDataByPair(data))
    IN  [isValid |-> \A i \in 1..Len(errors) : errors[i].kind = "range", errors |-> errors,
         warnings |-> CollectWarnings(groupDataByPair(data))]

\* validateData in which stale data is an error
validateDataStaleRejected(data) ==
    LET errors == CollectErrors(groupDataByPair(data))
    IN  [isValid |-> errors = <<>> /\ \A i \in 1..Len(data) : ~IsStale(data[i]),
         errors |-> errors, warnings |-> CollectWarnings(groupDataByPair(data))]

\* validateData: the entries of the grouped data are visited in order; isValid is
\* errors.length === 0
validateData(data) ==
    LET errors == CollectErrors(groupDataByPair(data))
    IN  [isValid |-> errors = <<>>, errors |-> errors,
         warnings |-> CollectWarnings(groupDataByPair(data))]

\* ProcessGroup without the check of the cleaned group against minSourcesRequired
ProcessGroupUnchecked(entry) ==
    LET cleanedData == removeOutliers(entry.data)
    IN  IF FindPair(entry.key).key = "" \/ Len(entry.data) = 0 \/ Len(cleanedData) = 0
        THEN <<>>
        ELSE <<aggregatePrices(cleanedData)>>

\* the body of processData's loop for one entry: nothing for an unknown pair or
\* for a group cleaned below minSourcesRequired, else the aggregated value
ProcessGroup(entry) ==
    LET cleanedData == removeOutliers(entry.data)
    IN  IF FindPair(entry.key).key = "" \/ Len(entry.data) = 0 THEN <<>>
        ELSE IF Len(cleanedData) < priceConfig.minSourcesRequired THEN <<>>
             ELSE <<aggregatePrices(cleanedData)>>

RECURSIVE CollectResults(_)
CollectResults(groups) ==
    IF groups = <<>> THEN <<>> ELSE ProcessGroup(Head(groups)) \o CollectResults(Tail(groups))

\* processData's aggregatedResults; processData throws when it is empty and
\* returns aggregatedResults[0] otherwise
processData(data) == CollectResults(groupDataByPair(data))

\* this.lastPrices.set(pairKey, aggregatedPrice) for every element of results
RECURSIVE StoreResults(_, _)
StoreResults(table, results) ==
    IF results = <<>> THEN table
    ELSE LET r == Head(results)
             t == [k \in DOMAIN table \cup {r.pair} |-> IF k = r.pair THEN r ELSE table[k]]
         IN  StoreResults(t, Tail(results))

\* submitToBlockchain up to its await: "skipped" when the table holds a value for
\* the pair and shouldUpdate is false, else the transaction is sent
GateDecision(table, processedData) ==
    IF /\ processedData.pair \in DOMAIN table
       /\ ~shouldUpdate(table[processedData.pair].price, processedData.price)
    THEN "skipped" ELSE "send"

-----------------------------------------------------------------------------
(* OracleBase: the scheduling state [isRunning, updateTimer, timers] *)

Sched == [isRunning |-> isRunning, updateTimer |-> updateTimer, timers |-> timers]

\* stop()
stop(s) ==
    IF ~s.isRunning THEN s
    ELSE [isRunning   |-> FALSE,
          updateTimer |-> NoTimer,
          timers      |-> IF s.updateTimer # NoTimer THEN s.timers \ {s.updateTimer}
                          ELSE s.timers]

\* scheduleUpdates(): setTimeout returns the fresh handle h
scheduleUpdates(s, h) ==
    IF ~s.isRunning THEN s
    ELSE [isRunning |-> TRUE, updateTimer |-> h, timers |-> s.timers \cup {h}]

\* TripsBreaker with the comparison off by one
TripsBreakerLate(count) == count > retryAttempts

\* TripsBreaker tripping at the first failure
TripsBreakerAtOnce(count) == count >= 1

\* the catch block of performUpdate after errorCount++: at the threshold the
\* oracle is stopped and the error thrown again
TripsBreaker(count) == count >= retryAttempts

\* AfterCycle in which forceUpdate() goes on to scheduleUpdates() too
AfterCycleReschedules(s, trigger, threw, h) ==
    IF trigger = "start" /\ threw THEN s ELSE scheduleUpdates(s, h)

\* what the caller of performUpdate does when it settles: start() and the timer
\* callback go on to scheduleUpdates() (start() only if nothing was thrown; the
\* timer callback catches and logs); forceUpdate() just returns
AfterCycle(s, trigger, threw, h) ==
    IF trigger = "timer" \/ (trigger = "start" /\ ~threw) THEN scheduleUpdates(s, h) ELSE s

-----------------------------------------------------------------------------
(* The environment: configurations and what the sources answer *)

\* the answer in which the first n sources report price for a pair and the rest fail
Report(price, n) ==
    [s \in Sources |-> IF \E i \in 1..n : dataSources[i] = s THEN price ELSE FetchFailed]

\* a few answers of the sources for BTC/USD, ETH/USD failing everywhere: no
\* report, one report (below minSourcesRequired), two reports at either price
NarrowResponses ==
    { [k \in PairKeys |-> IF k = "BTC/USD" THEN b ELSE Report(100, 0)] :
          b \in {Report(1000, 0), Report(1000, 1), Report(1000, 2), Report(1015, 2)} }

\* every answer in which each source fails or reports one of the listed prices
\* (999 is below BTC/USD's minPrice)
WideResponses ==
    { [k \in PairKeys |-> IF k = "BTC/USD" THEN b ELSE e] :
          b \in [Sources -> {FetchFailed, 999, 1000, 1015}],
          e \in [Sources -> {FetchFailed, 100}] }

\* the configuration of index.ts (median, outlierThreshold 2, MIN_DATA_SOURCES 2,
\* every weight 1) with DEVIATION_THRESHOLD 0 or 1
DefaultConfigs ==
    { [aggregationMethod |-> "median", outlierThreshold |-> 2, minSourcesRequired |-> 2,
       deviationThreshold |-> d, weights |-> [s \in Sources |-> 1]] : d \in {0, 1} }

\* configurations that also vary outlierThreshold and minSourcesRequired
WideConfigs ==
    { [aggregationMethod |-> "median", outlierThreshold |-> t, minSourcesRequired |-> m,
       deviationThreshold |-> d, weights |-> [s \in Sources |-> 1]] :
          t \in {1, 2}, m \in {2, 3}, d \in {0, 1} }

\* every answer for BTC/USD in which each source fails or reports one of the
\* listed prices, ETH/USD failing everywhere
QuorumResponses ==
    { [k \in PairKeys |-> IF k = "BTC/USD" THEN b ELSE Report(100, 0)] :
          b \in [Sources -> {FetchFailed, 999, 1000, 1015}] }

\* two answers: no source reports, or two report BTC/USD at 1000
ControlResponses ==
    { [k \in PairKeys |-> IF k = "BTC/USD" THEN b ELSE Report(100, 0)] :
          b \in {Report(1000, 0), Report(1000, 2)} }

\* answers for BTC/USD in which CoinMarketCap reports too, ETH/USD failing
\* everywhere
StaleResponses ==
    { [k \in PairKeys |-> IF k = "BTC/USD" THEN b ELSE Report(100, 0)] :
          b \in [Sources -> {FetchFailed, 1000, 1015}] }

\* the age of CoinMarketCap's last_updated when its answer arrives: none, or two
\* update intervals
LastUpdatedLags == {0, 2}

-----------------------------------------------------------------------------
(* One invocation of performUpdate *)

NoData == [pair |-> "", price |-> [num |-> 0, den |-> 1], sourceCount |-> 0, outliers |-> <<>>]

\* trigger: who called performUpdate; pc: where it is suspended; rawData and
\* processedData: its locals; txHash: what submitToBlockchain returned;
\* outcome: how the cycle ended; error: the stage whose error the catch block
\* caught; threw: whether performUpdate threw that error to its caller;
\* startTime: performUpdate's const startTime = Date.now(); attempt:
\* fetchDataWithRetry's loop variable; slept: the attempts after which
\* fetchDataWithRetry awaited sleep(calculateRetryDelay(attempt)); fetched: how
\* many source.fetchPrice calls of fetchData have returned or thrown
NewCycle(trigger) ==
    [trigger |-> trigger, pc |-> "fetch", rawData |-> <<>>, processedData |-> NoData,
     txHash |-> "none", outcome |-> "none", error |-> "none", threw |-> FALSE,
     startTime |-> now, attempt |-> 1, slept |-> <<>>, fetched |-> 0]

InFlight(c) == c \in 1..Len(cycles) /\ cycles[c].pc # "done"

\* No callback is in the middle of its turn.  The code that follows the fetch
\* (validateData, processData, the threshold check) awaits no I/O, so it runs in
\* the turn in which the fetch returned: FetchReturns and Process are one turn,
\* split only so that rawData is part of the state in between.
TurnOver == \A c \in 1..Len(cycles) : cycles[c].pc # "validate"

\* Succeed in which lastUpdateTime is not set
SucceedKeepsTime(c, txHash, table) ==
    LET s == AfterCycle(Sched, cycles[c].trigger, FALSE, c)
    IN  /\ totalUpdates' = totalUpdates + 1
        /\ errorCount' = errorCount
        /\ lastPrices' = table
        /\ isRunning' = s.isRunning
        /\ updateTimer' = s.updateTimer
        /\ timers' = s.timers
        /\ cycles' = [cycles EXCEPT ![c] = [@ EXCEPT !.pc = "done", !.rawData = <<>>,
                          !.processedData = NoData, !.txHash = txHash,
                          !.outcome = "success"]]
        /\ UNCHANGED <<call, priceConfig, lastUpdateTime>>

\* Succeed in which errorCount is set back to 0
SucceedResetsErrors(c, txHash, table) ==
    LET s == AfterCycle(Sched, cycles[c].trigger, FALSE, c)
    IN  /\ totalUpdates' = totalUpdates + 1
        /\ errorCount' = 0
        /\ lastPrices' = table
        /\ isRunning' = s.isRunning
        /\ updateTimer' = s.updateTimer
        /\ timers' = s.timers
        /\ cycles' = [cycles EXCEPT ![c] = [@ EXCEPT !.pc = "done", !.rawData = <<>>,
                          !.processedData = NoData, !.txHash = txHash,
                          !.outcome = "success"]]
        /\ lastUpdateTime' = now'
        /\ UNCHANGED <<call, priceConfig>>

\* performUpdate's try block has completed for cycle c: the counters and
\* lastUpdateTime = Date.now() are updated, the caller continues
Succeed(c, txHash, table) ==
    LET s == AfterCycle(Sched, cycles[c].trigger, FALSE, c)
    IN  /\ totalUpdates' = totalUpdates + 1
        /\ errorCount' = errorCount
        /\ lastPrices' = table
        /\ isRunning' = s.isRunning
        /\ updateTimer' = s.updateTimer
        /\ timers' = s.timers
        /\ cycles' = [cycles EXCEPT ![c] = [@ EXCEPT !.pc = "done", !.rawData = <<>>,
                          !.processedData = NoData, !.txHash = txHash,
                          !.outcome = "success"]]
        /\ lastUpdateTime' = now'
        /\ UNCHANGED <<call, priceConfig>>

\* performUpdate's catch block for cycle c, then the caller
Fail(c, error) ==
    LET count == errorCount + 1
        threw == TripsBreaker(count)
        s1    == IF threw THEN stop(Sched) ELSE Sched
        s2    == AfterCycle(s1, cycles[c].trigger, threw, c)
    IN  /\ errorCount' = count
        /\ isRunning' = s2.isRunning
        /\ updateTimer' = s2.updateTimer
        /\ timers' = s2.timers
        /\ cycles' = [cycles EXCEPT ![c] = [@ EXCEPT !.pc = "done", !.rawData = <<>>,
                          !.processedData = NoData, !.outcome = "failure",
                          !.error = error, !.threw = threw]]
        /\ UNCHANGED <<call, priceConfig, totalUpdates, lastPrices, lastUpdateTime>>

-----------------------------------------------------------------------------
(* OracleBase: calculateRetryDelay *)

\* Math.pow(2, k) for a natural k
RECURSIVE Pow2(_)
Pow2(k) == IF k = 0 THEN 1 ELSE 2 * Pow2(k - 1)

\* the values Math.random() takes here: tenths / 10, from 0 to 0.9
RandomTenths == 0..9

\* calculateRetryDelay without the cap at maxDelay
calculateRetryDelayUncapped(attempt, tenths) ==
    LET delay == 1000 * Pow2(attempt - 1)
    IN  delay + (tenths * delay) \div 100

\* calculateRetryDelay, in ms: delay = Math.min(baseDelay * Math.pow(2, attempt - 1),
\* maxDelay), jitter = Math.random() * 0.1 * delay, Math.floor(delay + jitter);
\* delay is a whole number, so the floor is delay + floor(tenths * delay / 100)
calculateRetryDelay(attempt, tenths) ==
    LET scaled == 1000 * Pow2(attempt - 1)
        delay  == IF scaled < 30000 THEN scaled ELSE 30000
    IN  delay + (tenths * delay) \div 100

-----------------------------------------------------------------------------
(* OracleBase: getStatus, getHealth *)

\* getStatus: the fields are read when it is called; getSourcesStatus catches the
\* failure of every source, so getStatus does not throw
getStatus ==
    [isActive |-> isRunning, lastUpdate |-> lastUpdateTime, totalUpdates |-> totalUpdates,
     errorCount |-> errorCount]

\* getHealth in which the error rate is looked at before the age of the last update
getHealthErrorsFirst ==
    LET status == getStatus
    IN  IF ~status.isActive
        THEN [status |-> "unhealthy", reason |-> "Oracle is not active"]
        ELSE IF 2 * status.errorCount > retryAttempts
        THEN [status |-> "degraded", reason |-> "High error rate"]
        ELSE IF now - status.lastUpdate > 2
        THEN [status |-> "degraded", reason |-> "Last update is stale"]
        ELSE [status |-> "healthy", reason |-> ""]

\* getHealth: maxAllowedAge = updateInterval * 2 * 1000 is two units of the clock;
\* status.errorCount > retryAttempts / 2 is 2 * errorCount > retryAttempts; the
\* checks of the sources take less than one unit
getHealth ==
    LET status              == getStatus
        timeSinceLastUpdate == now - status.lastUpdate
    IN  IF ~status.isActive
        THEN [status |-> "unhealthy", reason |-> "Oracle is not active"]
        ELSE IF timeSinceLastUpdate > 2
        THEN [status |-> "degraded", reason |-> "Last update is stale"]
        ELSE IF 2 * status.errorCount > retryAttempts
        THEN [status |-> "degraded", reason |-> "High error rate"]
        ELSE [status |-> "healthy", reason |-> ""]

-----------------------------------------------------------------------------
(* Actions *)

\* start(): not running (config.enabled is true); isRunning is set before the
\* initial performUpdate is awaited
Start ==
    /\ TurnOver
    /\ ~isRunning
    /\ Len(cycles) < MaxCycles
    /\ isRunning' = TRUE
    /\ cycles' = Append(cycles, NewCycle("start"))
    /\ UNCHANGED <<call, priceConfig, updateTimer, timers, errorCount, totalUpdates, lastPrices,
                   lastUpdateTime, now>>

\* the steps of TonOracleApplication.start() that come before the oracle is
\* started, each of which may throw
EarlySteps == {"configuration", "ton client initialize", "ton client health"}

\* TonOracleApplication.start() throws in validateConfiguration,
\* tonClient.initialize or the TON client's health check: the oracle is not touched
AppStartFailsEarly ==
    /\ TurnOver
    /\ call = NoCall
    /\ ~isRunning
    /\ \E step \in EarlySteps :
          call' = [fn |-> "TonOracleApplication.start", step |-> step, result |-> "failed"]
    /\ UNCHANGED <<priceConfig, isRunning, updateTimer, timers, errorCount, totalUpdates,
                   lastPrices, cycles, lastUpdateTime, now>>

\* TonOracleApplication.start() passes the early steps and awaits
\* priceOracle.start(), which sets isRunning and awaits the initial cycle
AppStartsOracle ==
    /\ TurnOver
    /\ call = NoCall
    /\ ~isRunning
    /\ Len(cycles) < MaxCycles
    /\ isRunning' = TRUE
    /\ cycles' = Append(cycles, NewCycle("start"))
    /\ call' = [fn |-> "TonOracleApplication.start", step |-> "oracle start",
                result |-> "pending"]
    /\ UNCHANGED <<priceConfig, updateTimer, timers, errorCount, totalUpdates, lastPrices,
                   lastUpdateTime, now>>

\* TonOracleApplication.start() resumes after priceOracle.start() settled: a
\* rejection is rethrown, otherwise getHealth() must say 'healthy' or the call
\* throws; the catch block logs and rethrows, the application's own isRunning is
\* set only on the way to a normal return
AppStartSettles ==
    /\ call # NoCall
    /\ call.fn = "TonOracleApplication.start"
    /\ call.result = "pending"
    /\ \A c \in 1..Len(cycles) : cycles[c].pc = "done"
    /\ call' = IF cycles[Len(cycles)].threw
               THEN [call EXCEPT !.result = "failed"]
               ELSE IF getHealth.status # "healthy"
               THEN [call EXCEPT !.step = "oracle health", !.result = "failed"]
               ELSE [call EXCEPT !.step = "returned", !.result = "started"]
    /\ UNCHANGED <<priceConfig, isRunning, updateTimer, timers, errorCount, totalUpdates,
                   lastPrices, cycles, lastUpdateTime, now>>

\* RETRY_DELAY values of the TON client, in milliseconds (5000 is the default)
RetryDelays == {1000, 5000}

\* the head of sendTransaction's loop, while (attempt < maxRetries): the next
\* attempt begins, or the loop is left and UNEXPECTED_ERROR is thrown
LoopHead(tx) ==
    IF tx.attempt < tx.args[1]
    THEN [tx EXCEPT !.attempt = @ + 1, !.pc = "transfer"]
    ELSE [tx EXCEPT !.pc = "thrown", !.result = "UNEXPECTED_ERROR"]

\* sendTransaction(request) on a TON client configured with maxRetries and
\* retryDelay, whose wallet is or is not initialised
CallSendTransaction ==
    /\ IF call = NoCall THEN TRUE ELSE call.pc \in {"returned", "thrown"}
    /\ \E maxRetries \in 0..MaxTransferRetries, retryDelay \in RetryDelays, wallet \in BOOLEAN :
          LET tx == [fn |-> "sendTransaction", args |-> <<maxRetries, retryDelay, wallet>>,
                     pc |-> "entry", attempt |-> 0, failed |-> 0, slept |-> <<>>,
                     result |-> "pending"]
          IN  call' = IF ~wallet
                      THEN [tx EXCEPT !.pc = "thrown", !.result = "WALLET_NOT_INITIALIZED"]
                      ELSE LoopHead(tx)
    /\ UNCHANGED <<priceConfig, isRunning, updateTimer, timers, errorCount, totalUpdates,
                   lastPrices, cycles, lastUpdateTime, now>>

\* getSeqno and sendTransfer went through: the result is returned
TransferSucceeds ==
    /\ call # NoCall
    /\ call.fn = "sendTransaction"
    /\ call.pc = "transfer"
    /\ call' = [call EXCEPT !.pc = "returned", !.result = "hash"]
    /\ UNCHANGED <<priceConfig, isRunning, updateTimer, timers, errorCount, totalUpdates,
                   lastPrices, cycles, lastUpdateTime, now>>

\* something in the try block threw: the last attempt throws TRANSACTION_ERROR,
\* any other sleeps retryDelay * attempt
TransferFails ==
    /\ call # NoCall
    /\ call.fn = "sendTransaction"
    /\ call.pc = "transfer"
    /\ call' = IF call.attempt >= call.args[1]
               THEN [call EXCEPT !.failed = @ + 1, !.pc = "thrown",
                                 !.result = "TRANSACTION_ERROR"]
               ELSE [call EXCEPT !.failed = @ + 1, !.pc = "sleep",
                                 !.slept = Append(@, call.args[2] * call.attempt)]
    /\ UNCHANGED <<priceConfig, isRunning, updateTimer, timers, errorCount, totalUpdates,
                   lastPrices, cycles, lastUpdateTime, now>>

\* the sleep between two attempts is over: back to the head of the loop
SleepOver ==
    /\ call # NoCall
    /\ call.fn = "sendTransaction"
    /\ call.pc = "sleep"
    /\ call' = LoopHead(call)
    /\ UNCHANGED <<priceConfig, isRunning, updateTimer, timers, errorCount, totalUpdates,
                   lastPrices, cycles, lastUpdateTime, now>>

\* start() called while running in which the initial cycle is run all the same
StartWhileRunningRestarts ==
    /\ TurnOver
    /\ isRunning
    /\ Len(cycles) < MaxCycles
    /\ call' = [fn |-> "start", args |-> <<>>, result |-> "already running"]
    /\ cycles' = Append(cycles, NewCycle("start"))
    /\ UNCHANGED <<priceConfig, isRunning, updateTimer, timers, errorCount, totalUpdates,
                   lastPrices, lastUpdateTime, now>>

\* start() called while running: 'Oracle is already running' is logged and the
\* call returns
StartWhileRunning ==
    /\ TurnOver
    /\ isRunning
    /\ call' = [fn |-> "start", args |-> <<>>, result |-> "already running"]
    /\ UNCHANGED <<priceConfig, isRunning, updateTimer, timers, errorCount, totalUpdates,
                   lastPrices, cycles, lastUpdateTime, now>>

\* stop() called by an operator while running
Stop ==
    /\ TurnOver
    /\ isRunning
    /\ isRunning' = stop(Sched).isRunning
    /\ updateTimer' = stop(Sched).updateTimer
    /\ timers' = stop(Sched).timers
    /\ UNCHANGED <<call, priceConfig, errorCount, totalUpdates, lastPrices, cycles,
                   lastUpdateTime, now>>

\* ForceUpdate in which the oracle is marked as running
ForceUpdateStarts ==
    /\ TurnOver
    /\ Len(cycles) < MaxCycles
    /\ cycles' = Append(cycles, NewCycle("force"))
    /\ isRunning' = TRUE
    /\ UNCHANGED <<call, priceConfig, updateTimer, timers, errorCount, totalUpdates,
                   lastPrices, lastUpdateTime, now>>

\* forceUpdate(): no condition
ForceUpdate ==
    /\ TurnOver
    /\ Len(cycles) < MaxCycles
    /\ cycles' = Append(cycles, NewCycle("force"))
    /\ UNCHANGED <<call, priceConfig, isRunning, updateTimer, timers, errorCount, totalUpdates,
                   lastPrices, lastUpdateTime, now>>

\* the timeout with handle h fires, one updateInterval having passed: its callback
\* calls performUpdate without looking at isRunning; updateTimer keeps the handle
TimerFires(h) ==
    /\ TurnOver
    /\ h \in timers
    /\ Len(cycles) < MaxCycles
    /\ timers' = timers \ {h}
    /\ cycles' = Append(cycles, [NewCycle("timer") EXCEPT !.startTime = now + 1])
    /\ now' = now + 1
    /\ UNCHANGED <<call, priceConfig, isRunning, updateTimer, errorCount, totalUpdates, lastPrices,
                   lastUpdateTime>>

\* fetchDataWithRetry returns for cycle c: fetchData swallowed the failures of the
\* sources, so the first attempt returns; the requests take less than one unit
\* of the clock; lags are the ages CoinMarketCap's last_updated may have
FetchReturns(c, responses, lags) ==
    /\ TurnOver
    /\ InFlight(c)
    /\ cycles[c].pc = "fetch"
    /\ \E resp \in responses, lag \in lags :
           cycles' = [cycles EXCEPT ![c] = [@ EXCEPT !.pc = "validate",
                                                    !.fetched = Len(ActiveSlots),
                                                    !.rawData = fetchData(resp, now - lag)]]
    /\ now' = now
    /\ UNCHANGED <<call, priceConfig, isRunning, updateTimer, timers, errorCount, totalUpdates,
                   lastPrices, lastUpdateTime>>

\* what one source.fetchPrice call for the pair may come to: a throw, or a price
SlotAnswers(pairKey) ==
    IF pairKey = "BTC/USD" THEN {FetchFailed, 1000} ELSE {FetchFailed, 100}

\* FetchOne in which fetchData returns as soon as the first pair has been asked
\* for at every source
FetchOneFirstPairOnly(c) ==
    /\ TurnOver
    /\ InFlight(c)
    /\ cycles[c].pc = "fetch"
    /\ cycles[c].fetched < Len(ActiveSlots)
    /\ LET slot == ActiveSlots[cycles[c].fetched + 1]
           pair == supportedPairs[slot.pair].key
           src  == dataSources[slot.source]
       IN  \E answer \in SlotAnswers(pair) :
             cycles' = [cycles EXCEPT ![c] =
                 [@ EXCEPT !.fetched = @ + 1,
                           !.rawData = IF answer = FetchFailed THEN @
                                       ELSE Append(@, [pair |-> pair, source |-> src,
                                                       price |-> answer, timestamp |-> now]),
                           !.pc = IF cycles[c].fetched + 1 = Len(dataSources)
                                  THEN "validate" ELSE "fetch"]]
    /\ now' = now
    /\ UNCHANGED <<call, priceConfig, isRunning, updateTimer, timers, errorCount, totalUpdates,
                   lastPrices, lastUpdateTime>>

\* one awaited source.fetchPrice call of fetchData settles for cycle c: a price
\* is pushed to allPriceData, a throw is caught and logged; after the last call
\* of the two loops fetchData returns and performUpdate goes on to validateData
FetchOne(c) ==
    /\ TurnOver
    /\ InFlight(c)
    /\ cycles[c].pc = "fetch"
    /\ cycles[c].fetched < Len(ActiveSlots)
    /\ LET slot == ActiveSlots[cycles[c].fetched + 1]
           pair == supportedPairs[slot.pair].key
           src  == dataSources[slot.source]
       IN  \E answer \in SlotAnswers(pair) :
             cycles' = [cycles EXCEPT ![c] =
                 [@ EXCEPT !.fetched = @ + 1,
                           !.rawData = IF answer = FetchFailed THEN @
                                       ELSE Append(@, [pair |-> pair, source |-> src,
                                                       price |-> answer, timestamp |-> now]),
                           !.pc = IF cycles[c].fetched + 1 = Len(ActiveSlots)
                                  THEN "validate" ELSE "fetch"]]
    /\ now' = now
    /\ UNCHANGED <<call, priceConfig, isRunning, updateTimer, timers, errorCount, totalUpdates,
                   lastPrices, lastUpdateTime>>

\* one updateInterval passes while the I/O of a cycle is pending (slow sources, a
\* slow ledger, or a short UPDATE_INTERVAL) and no timeout is armed that would
\* come due
SlowIO ==
    /\ TurnOver
    /\ timers = {}
    /\ \E c \in 1..Len(cycles) : InFlight(c)
    /\ \A c \in 1..Len(cycles) : InFlight(c) => now - cycles[c].startTime < MaxDuration
    /\ now' = now + 1
    /\ UNCHANGED <<call, priceConfig, isRunning, updateTimer, timers, errorCount, totalUpdates,
                   lastPrices, cycles, lastUpdateTime>>

\* the error fetchData throws in the given attempt of fetchDataWithRetry
FetchError(attempt) == "fetch attempt " \o ToString(attempt)

\* FetchThrows in which sleep is awaited after the last attempt as well
FetchThrowsSleepsAlways(c) ==
    /\ TurnOver
    /\ InFlight(c)
    /\ cycles[c].pc = "fetch"
    /\ now' = now
    /\ cycles' = [cycles EXCEPT ![c] = [@ EXCEPT !.pc = "sleep",
                                                 !.slept = Append(@, cycles[c].attempt)]]
    /\ UNCHANGED <<call, priceConfig, isRunning, updateTimer, timers, errorCount,
                   totalUpdates, lastPrices, lastUpdateTime>>

\* fetchDataWithRetry's catch block for cycle c: fetchData, which is abstract in
\* OracleBase, threw in the current attempt.  Before the last attempt the delay
\* is computed and sleep awaited; after the last one the loop ends and
\* lastError, the error just caught, is thrown to performUpdate
FetchThrows(c) ==
    /\ TurnOver
    /\ InFlight(c)
    /\ cycles[c].pc = "fetch"
    /\ now' = now
    /\ IF cycles[c].attempt < retryAttempts
       THEN /\ cycles' = [cycles EXCEPT ![c] = [@ EXCEPT !.pc = "sleep",
                                                        !.slept = Append(@, cycles[c].attempt)]]
            /\ UNCHANGED <<call, priceConfig, isRunning, updateTimer, timers, errorCount,
                           totalUpdates, lastPrices, lastUpdateTime>>
       ELSE Fail(c, FetchError(cycles[c].attempt))

\* the sleep between two attempts is over (at most 33 seconds, less than one unit
\* of the clock): attempt++ and the next fetchData call
SleepReturns(c) ==
    /\ TurnOver
    /\ InFlight(c)
    /\ cycles[c].pc = "sleep"
    /\ now' = now
    /\ cycles' = [cycles EXCEPT ![c] = [@ EXCEPT !.pc = "fetch", !.attempt = @ + 1]]
    /\ UNCHANGED <<call, priceConfig, isRunning, updateTimer, timers, errorCount,
                   totalUpdates, lastPrices, lastUpdateTime>>

\* steps 2 to 4 of performUpdate up to the await in submitToBlockchain: validateData,
\* processData (which writes lastPrices), then the threshold check
Process(c) ==
    /\ InFlight(c)
    /\ cycles[c].pc = "validate"
    /\ now' = now
    /\ LET rawData == cycles[c].rawData
           results == processData(rawData)
           table   == StoreResults(lastPrices, results)
       IN  IF ~validateData(rawData).isValid THEN Fail(c, "validation")
           ELSE IF results = <<>> THEN Fail(c, "aggregation")
           ELSE IF GateDecision(table, results[1]) = "skipped"
                THEN Succeed(c, "skipped", table)
                ELSE /\ lastPrices' = table
                     /\ cycles' = [cycles EXCEPT ![c] = [@ EXCEPT !.pc = "submit",
                                       !.processedData = results[1]]]
                     /\ UNCHANGED <<call, priceConfig, isRunning, updateTimer, timers,
                                    errorCount, totalUpdates, lastUpdateTime>>

\* LedgerAnswers in which a failed submission sends the cycle back to its fetch stage
LedgerAnswersRetries(c) ==
    /\ TurnOver
    /\ InFlight(c)
    /\ cycles[c].pc = "submit"
    /\ now' = now
    /\ \/ Succeed(c, "hash", lastPrices)
       \/ /\ cycles' = [cycles EXCEPT ![c] = [@ EXCEPT !.pc = "fetch"]]
          /\ UNCHANGED <<call, priceConfig, isRunning, updateTimer, timers, errorCount,
                         totalUpdates, lastPrices, lastUpdateTime>>

\* tonClient.sendTransaction answers for cycle c, within the same unit of the clock
LedgerAnswers(c) ==
    /\ TurnOver
    /\ InFlight(c)
    /\ cycles[c].pc = "submit"
    /\ now' = now
    /\ \/ Succeed(c, "hash", lastPrices)
       \/ Fail(c, "ledger")

-----------------------------------------------------------------------------
(* Direct calls of PriceOracle's helpers, as a unit test makes them *)

\* the sequences over S of length lo to hi
SeqsOf(S, lo, hi) == UNION { [1..n -> S] : n \in lo..hi }

\* configurations for the helpers: outlierThreshold and deviationThreshold 1 or 2;
\* coingecko and binance have a configured weight (0, 1 or 3), coinmarketcap has none
HelperConfigs ==
    { [aggregationMethod |-> "weighted", outlierThreshold |-> t, minSourcesRequired |-> 2,
       deviationThreshold |-> t, weights |-> w] :
          t \in {1, 2},
          w \in { [coingecko |-> 1, binance |-> 3], [coingecko |-> 0, binance |-> 1],
                  [coingecko |-> 0, binance |-> 0] } }

\* prices 99, 100, 100.5, 101, 101.5 and 102
GatePrices == { Frac(n, 2) : n \in {198, 200, 201, 202, 203, 204} }

\* groups of observations of BTC/USD at 1000 or 1005
OutlierGroups ==
    SeqsOf({ [pair |-> "BTC/USD", source |-> "coingecko", price |-> p] : p \in {1000, 1005} },
           0, MaxGroup)

\* groups of exactly 3 observations at 99, 100, 150 or 500
TripleGroups ==
    SeqsOf({ [pair |-> "BTC/USD", source |-> "coingecko", price |-> p] :
                 p \in {99, 100, 150, 500} }, 3, 3)

MedianValues == SeqsOf({100, 200, 300}, 1, MaxValues)

WeightedData ==
    SeqsOf({ [pair |-> "BTC/USD", source |-> s, price |-> p] : s \in Sources, p \in {100, 300} },
           0, MaxWeighted)

\* configurations for the direct calls of calculateConfidence and validateData:
\* minSourcesRequired 2 or 8
DirectConfigs ==
    { [aggregationMethod |-> "median", outlierThreshold |-> 2, minSourcesRequired |-> m,
       deviationThreshold |-> 1, weights |-> [s \in Sources |-> 1]] : m \in {2, 8} }

\* cleaned groups of 1 to MaxDirect observations at 10, 20 or 40
ConfidenceData ==
    SeqsOf({ [pair |-> "BTC/USD", source |-> "coingecko", price |-> p] : p \in {10, 20, 40} },
           1, MaxDirect)

\* raw data for BTC/USD (1000 to 1000000), fresh, at prices around minPrice or
\* around maxPrice
ValidateData ==
    UNION { SeqsOf({ [pair |-> "BTC/USD", source |-> "coingecko", price |-> p,
                      timestamp |-> now] : p \in around }, 0, MaxDirect) :
                around \in { {999, 1000, 1001}, {999999, 1000000, 1000001} } }

CallValidateData ==
    /\ \E data \in ValidateData :
           call' = [fn |-> "validateData", args |-> <<data>>, result |-> validateData(data)]
    /\ UNCHANGED <<priceConfig, isRunning, updateTimer, timers, errorCount, totalUpdates,
                   lastPrices, cycles, lastUpdateTime, now>>

CallCalculateRetryDelay ==
    /\ \E attempt \in 1..MaxAttempt, tenths \in RandomTenths :
           call' = [fn |-> "calculateRetryDelay", args |-> <<attempt, tenths>>,
                    result |-> calculateRetryDelay(attempt, tenths)]
    /\ UNCHANGED <<priceConfig, isRunning, updateTimer, timers, errorCount, totalUpdates,
                   lastPrices, cycles, lastUpdateTime, now>>

CallCalculateConfidence ==
    /\ \E data \in ConfidenceData :
           call' = [fn |-> "calculateConfidence", args |-> <<data>>,
                    result |-> calculateConfidence(data)]
    /\ UNCHANGED <<priceConfig, isRunning, updateTimer, timers, errorCount, totalUpdates,
                   lastPrices, cycles, lastUpdateTime, now>>

CallShouldUpdate ==
    /\ \E oldPrice \in GatePrices, newPrice \in GatePrices :
           call' = [fn |-> "shouldUpdate", args |-> <<oldPrice, newPrice>>,
                    result |-> shouldUpdate(oldPrice, newPrice)]
    /\ UNCHANGED <<priceConfig, isRunning, updateTimer, timers, errorCount, totalUpdates,
                   lastPrices, cycles, lastUpdateTime, now>>

CallRemoveOutliers ==
    /\ \E data \in OutlierGroups \cup TripleGroups :
           call' = [fn |-> "removeOutliers", args |-> <<data>>, result |-> removeOutliers(data)]
    /\ UNCHANGED <<priceConfig, isRunning, updateTimer, timers, errorCount, totalUpdates,
                   lastPrices, cycles, lastUpdateTime, now>>

CallCalculateMedian ==
    /\ \E values \in MedianValues :
           call' = [fn |-> "calculateMedian", args |-> <<values>>,
                    result |-> calculateMedian(values)]
    /\ UNCHANGED <<priceConfig, isRunning, updateTimer, timers, errorCount, totalUpdates,
                   lastPrices, cycles, lastUpdateTime, now>>

CallCalculateWeightedAverage ==
    /\ \E data \in WeightedData :
           call' = [fn |-> "calculateWeightedAverage", args |-> <<data>>,
                    result |-> calculateWeightedAverage(data)]
    /\ UNCHANGED <<priceConfig, isRunning, updateTimer, timers, errorCount, totalUpdates,
                   lastPrices, cycles, lastUpdateTime, now>>

-----------------------------------------------------------------------------
(* Specifications *)

InitOracle ==
    /\ isRunning = FALSE
    /\ updateTimer = NoTimer
    /\ timers = {}
    /\ errorCount = 0
    /\ totalUpdates = 0
    /\ lastPrices = <<>>
    /\ cycles = <<>>
    /\ lastUpdateTime = 0
    /\ now = StartTime
    /\ call = NoCall

Init == priceConfig \in DefaultConfigs /\ InitOracle

\* every interleaving of the operator's calls, the timers and the I/O completions
Next ==
    \/ Start
    \/ Stop
    \/ ForceUpdate
    \/ \E h \in timers : TimerFires(h)
    \/ \E c \in 1..Len(cycles) : FetchReturns(c, NarrowResponses, {0})
    \/ \E c \in 1..Len(cycles) : Process(c)
    \/ \E c \in 1..Len(cycles) : LedgerAnswers(c)

Spec == Init /\ [][Next]_vars

Idle == \A c \in 1..Len(cycles) : cycles[c].pc = "done"

InitPipeline == priceConfig \in WideConfigs /\ InitOracle

\* cycles run one after the other, each awaited before the next is forced, over
\* the wide set of answers and configurations
ForceWhenIdle == Idle /\ ForceUpdate

NextPipeline ==
    \/ ForceWhenIdle
    \/ \E c \in 1..Len(cycles) : FetchReturns(c, WideResponses, {0})
    \/ \E c \in 1..Len(cycles) : Process(c)
    \/ \E c \in 1..Len(cycles) : LedgerAnswers(c)

SpecPipeline == InitPipeline /\ [][NextPipeline]_vars

\* an armed timeout comes due and its callback runs
SomeTimerFires == \E h \in timers : TimerFires(h)

\* the schedule left to itself: start() is called, nobody calls stop() or
\* forceUpdate()
NextScheduled ==
    \/ Start
    \/ SomeTimerFires
    \/ \E c \in 1..Len(cycles) : FetchReturns(c, NarrowResponses, {0})
    \/ \E c \in 1..Len(cycles) : Process(c)
    \/ \E c \in 1..Len(cycles) : LedgerAnswers(c)

\* the event loop does not leave an armed timeout pending for ever
SpecScheduled == Init /\ [][NextScheduled]_vars /\ WF_vars(SomeTimerFires)

\* cycles run one after the other over answers in which CoinMarketCap's
\* observation may be older than maxPriceAge
NextStale ==
    \/ ForceWhenIdle
    \/ \E c \in 1..Len(cycles) : FetchReturns(c, StaleResponses, LastUpdatedLags)
    \/ \E c \in 1..Len(cycles) : Process(c)
    \/ \E c \in 1..Len(cycles) : LedgerAnswers(c)

SpecStale == Init /\ [][NextStale]_vars

\* the operator's start() and stop() at any time, start() on a running oracle
\* included, with the timers and the cycles they begin
NextControl ==
    \/ Start
    \/ StartWhileRunning
    \/ Stop
    \/ SomeTimerFires
    \/ \E c \in 1..Len(cycles) : FetchReturns(c, ControlResponses, {0})
    \/ \E c \in 1..Len(cycles) : Process(c)
    \/ \E c \in 1..Len(cycles) : LedgerAnswers(c)

SpecControl == Init /\ [][NextControl]_vars

\* every interleaving of start(), stop(), forceUpdate(), the timers and the I/O
\* completions, over the two answers of ControlResponses
NextForce ==
    \/ Start
    \/ Stop
    \/ ForceUpdate
    \/ SomeTimerFires
    \/ \E c \in 1..Len(cycles) : FetchReturns(c, ControlResponses, {0})
    \/ \E c \in 1..Len(cycles) : Process(c)
    \/ \E c \in 1..Len(cycles) : LedgerAnswers(c)

SpecForce == Init /\ [][NextForce]_vars

\* cycles one after the other over the wide configurations and every answer
\* for BTC/USD
NextQuorum ==
    \/ ForceWhenIdle
    \/ \E c \in 1..Len(cycles) : FetchReturns(c, QuorumResponses, {0})
    \/ \E c \in 1..Len(cycles) : Process(c)
    \/ \E c \in 1..Len(cycles) : LedgerAnswers(c)

SpecQuorum == InitPipeline /\ [][NextQuorum]_vars

\* the schedule left to itself, with cycles whose I/O may take whole update
\* intervals
NextClock ==
    \/ Start
    \/ SomeTimerFires
    \/ SlowIO
    \/ \E c \in 1..Len(cycles) : FetchReturns(c, ControlResponses, {0})
    \/ \E c \in 1..Len(cycles) : Process(c)
    \/ \E c \in 1..Len(cycles) : LedgerAnswers(c)

SpecClock == Init /\ [][NextClock]_vars

\* a timeout of the oracle comes due once TonOracleApplication.start() has
\* settled (its continuation runs in the turn in which priceOracle.start() returns)
AppTimerFires ==
    /\ call # NoCall
    /\ call.result # "pending"
    /\ \E h \in timers : TimerFires(h)

\* TonOracleApplication.start() and what the oracle does after it
NextApp ==
    \/ AppStartFailsEarly
    \/ AppStartsOracle
    \/ AppStartSettles
    \/ AppTimerFires
    \/ \E c \in 1..Len(cycles) : FetchReturns(c, ControlResponses, {0})
    \/ \E c \in 1..Len(cycles) : Process(c)
    \/ \E c \in 1..Len(cycles) : LedgerAnswers(c)

SpecApp == Init /\ [][NextApp]_vars

\* TONClientService.sendTransaction called on its own
NextTransfer ==
    \/ CallSendTransaction
    \/ TransferSucceeds
    \/ TransferFails
    \/ SleepOver

SpecTransfer == Init /\ [][NextTransfer]_vars

\* cycles one after the other whose fetch stage is followed request by request
NextFanOut ==
    \/ ForceWhenIdle
    \/ \E c \in 1..Len(cycles) : FetchOne(c)
    \/ \E c \in 1..Len(cycles) : Process(c)
    \/ \E c \in 1..Len(cycles) : LedgerAnswers(c)

SpecFanOut == Init /\ [][NextFanOut]_vars

\* OracleBase over a fetchData that may throw: cycles run one after the other, each
\* attempt of the fetch stage returns or throws
NextRetry ==
    \/ ForceWhenIdle
    \/ \E c \in 1..Len(cycles) : FetchThrows(c)
    \/ \E c \in 1..Len(cycles) : SleepReturns(c)
    \/ \E c \in 1..Len(cycles) : FetchReturns(c, ControlResponses, {0})
    \/ \E c \in 1..Len(cycles) : Process(c)
    \/ \E c \in 1..Len(cycles) : LedgerAnswers(c)

SpecRetry == Init /\ [][NextRetry]_vars

InitDirect == priceConfig \in DirectConfigs /\ InitOracle

\* calculateConfidence, validateData and calculateRetryDelay called on arguments of
\* every shape
NextDirect ==
    \/ CallCalculateConfidence
    \/ CallValidateData
    \/ CallCalculateRetryDelay

SpecDirect == InitDirect /\ [][NextDirect]_vars

InitHelpers == priceConfig \in HelperConfigs /\ InitOracle

\* the helpers called one after the other on arguments of every shape
NextHelpers ==
    \/ CallShouldUpdate
    \/ CallRemoveOutliers
    \/ CallCalculateMedian
    \/ CallCalculateWeightedAverage

SpecHelpers == InitHelpers /\ [][NextHelpers]_vars

-----------------------------------------------------------------------------
(* Properties *)

\* the step in which cycle c ends
Ends(c) == InFlight(c) /\ cycles'[c].pc = "done"

\* the step in which cycle c ends in performUpdate's catch block
EndsInFailure(c) == Ends(c) /\ cycles'[c].outcome = "failure"

\* the step in which a new cycle begins with the given trigger
Begins(trigger) ==
    /\ Len(cycles') = Len(cycles) + 1
    /\ cycles'[Len(cycles')].trigger = trigger

\* the observations of rawData for one pair
PairData(data, key) == SelectSeq(data, LAMBDA d : d.pair = key)

\* C1: at most one performUpdate is in progress at any time.
C1_CyclesNeverOverlap == Cardinality({c \in 1..Len(cycles) : InFlight(c)}) <= 1

\* C2: when a cycle fails and errorCount thereby reaches retryAttempts, the
\* controller is stopped (isRunning false, no timer left armed) and the cycle
\* throws its error to the caller awaiting it.
C2_BreakerStopsAndRaises ==
    [][\A c \in 1..Len(cycles) :
          (EndsInFailure(c) /\ errorCount < retryAttempts /\ errorCount' >= retryAttempts)
              => (~isRunning' /\ timers' = {} /\ cycles'[c].threw)]_vars

\* C3: immediately after any successful cycle the failure counter is 0.
C3_SuccessResetsFailures ==
    [][\A c \in 1..Len(cycles) :
          (Ends(c) /\ cycles'[c].outcome = "success") => errorCount' = 0]_vars

\* C4: in a cycle that aggregates a value for a pair, the ledger client is invoked
\* for the pair if the table held no value for it before the cycle, or if the new
\* price differs from the table's by at least deviationThreshold percent.
C4_GateCommits ==
    [][\A c \in 1..Len(cycles) :
          (cycles[c].pc = "validate" /\ validateData(cycles[c].rawData).isValid)
              => LET results == processData(cycles[c].rawData)
                 IN  \A i \in 1..Len(results) :
                         (\/ results[i].pair \notin DOMAIN lastPrices
                          \/ shouldUpdate(lastPrices[results[i].pair].price, results[i].price))
                             => /\ cycles'[c].pc = "submit"
                                /\ cycles'[c].processedData.pair = results[i].pair]_vars

\* C5, as amended: when the initial cycle run by start() fails, start() throws
\* exactly when the failure brings errorCount to retryAttempts or more, and the
\* controller is then stopped and start() arms no timer; otherwise start() returns
\* normally, isRunning is left as it was and, if it is true, the timer is armed.
C5_StartFailureBelowThresholdIsSwallowed ==
    [][\A c \in 1..Len(cycles) :
          (cycles[c].trigger = "start" /\ EndsInFailure(c))
              => /\ cycles'[c].threw = (errorCount' >= retryAttempts)
                 /\ cycles'[c].threw => (~isRunning' /\ c \notin timers' /\ timers' \subseteq timers)
                 /\ ~cycles'[c].threw =>
                        /\ isRunning' = isRunning
                        /\ IF isRunning THEN updateTimer' = c /\ timers' = timers \cup {c}
                           ELSE updateTimer' = updateTimer /\ timers' = timers]_vars

\* C5 witness: start()'s initial cycle failed, nothing was thrown, the controller
\* runs and the timer start() armed is pending.
C5_Witness ==
    \E c \in 1..Len(cycles) :
        /\ cycles[c].trigger = "start" /\ cycles[c].outcome = "failure" /\ ~cycles[c].threw
        /\ isRunning /\ updateTimer = c /\ c \in timers

\* C5 as stated: if the initial cycle run by start() fails, start() raises the
\* error and the controller is left stopped with no timer armed.
C5_StartFailureRaises ==
    [][\A c \in 1..Len(cycles) :
          (cycles[c].trigger = "start" /\ EndsInFailure(c))
              => (cycles'[c].threw /\ ~isRunning' /\ timers' = {})]_vars

\* C6: once stop() has returned, no scheduled cycle begins until start() is called
\* again: a timer callback begins a cycle only while isRunning.
C6_NoScheduledCycleAfterStop == [][Begins("timer") => isRunning]_vars

\* C7: from a group whose prices are all identical, whatever its size,
\* removeOutliers drops nothing.
C7_IdenticalPricesKept ==
    \A c \in 1..Len(cycles) : \A k \in PairKeys :
        LET d == PairData(cycles[c].rawData, k)
        IN  (cycles[c].pc = "validate" /\ \A i, j \in 1..Len(d) : d[i].price = d[j].price)
                => removeOutliers(d) = d

C9_InsufficientSourcesReported ==
    \A c \in 1..Len(cycles) : \A p \in 1..Len(supportedPairs) :
        LET key    == supportedPairs[p].key
            result == validateData(cycles[c].rawData)
        IN  (/\ cycles[c].pc = "validate"
             /\ supportedPairs[p].isActive
             /\ Len(PairData(cycles[c].rawData, key)) < priceConfig.minSourcesRequired)
                => /\ ~result.isValid
                   /\ \E i \in 1..Len(result.errors) :
                          result.errors[i] = [kind |-> "insufficient", pair |-> key]

\* C10: every value written to lastPrices or handed to the submission has
\* sourceCount >= minSourcesRequired, sourceCount being the size of the group
\* after removeOutliers.
C10_PublishedMeetsQuorum ==
    [][/\ \A k \in DOMAIN lastPrices' :
              (k \notin DOMAIN lastPrices \/ lastPrices'[k] # lastPrices[k])
                  => /\ lastPrices'[k].sourceCount >= priceConfig.minSourcesRequired
                     /\ \E c \in 1..Len(cycles) :
                            /\ cycles[c].pc = "validate"
                            /\ lastPrices'[k].sourceCount =
                                   Len(removeOutliers(PairData(cycles[c].rawData, k)))
       /\ \A c \in 1..Len(cycles') :
              cycles'[c].pc = "submit"
                  => cycles'[c].processedData.sourceCount >= priceConfig.minSourcesRequired]_vars

\* C10 witness: three sources reported, removeOutliers dropped one, and the value
\* of the two that remain is in the table and on its way to the ledger.
C10_Witness ==
    \E c \in 1..Len(cycles) :
        LET d == PairData(cycles[c].rawData, cycles[c].processedData.pair)
        IN  /\ cycles[c].pc = "submit"
            /\ Len(d) = 3
            /\ Len(removeOutliers(d)) = 2
            /\ cycles[c].processedData.sourceCount = 2
            /\ lastPrices[cycles[c].processedData.pair] = cycles[c].processedData

\* C11: a cycle whose data passed validateData does not end in failure because
\* removeOutliers left pairs below minSourcesRequired, not even when that leaves
\* no pair at all: no error is raised and errorCount does not grow.
C11_SkippedPairsAreNotFailures ==
    [][\A c \in 1..Len(cycles) :
          (/\ cycles[c].pc = "validate"
           /\ validateData(cycles[c].rawData).isValid
           /\ \E k \in PairKeys :
                  LET d == PairData(cycles[c].rawData, k)
                  IN  d # <<>> /\ Len(removeOutliers(d)) < priceConfig.minSourcesRequired)
              => /\ cycles'[c].outcome # "failure"
                 /\ errorCount' = errorCount]_vars

\* C12: in a cycle that aggregates several pairs, every pair for which the check
\* of submitToBlockchain says "send" is submitted to the ledger in that cycle.
C12_EveryApprovedPairSubmitted ==
    [][\A c \in 1..Len(cycles) :
          (cycles[c].pc = "validate" /\ validateData(cycles[c].rawData).isValid)
              => LET results == processData(cycles[c].rawData)
                     table   == StoreResults(lastPrices, results)
                 IN  \A i \in 1..Len(results) :
                         GateDecision(table, results[i]) = "send"
                             => /\ cycles'[c].pc = "submit"
                                /\ cycles'[c].processedData.pair = results[i].pair]_vars

\* C13: lastPrices is overwritten only by cycles that complete successfully, so
\* while no cycle has completed successfully and none is in progress it is as
\* it was at construction: empty.
C13_FailedCycleLeavesTable ==
    (Idle /\ \A c \in 1..Len(cycles) : cycles[c].outcome # "success") => lastPrices = <<>>

\* C14: the outliers of every aggregated value a cycle writes are exactly the
\* observations removeOutliers dropped from the pair's group in that cycle.
C14_OutliersRecorded ==
    [][\A c \in 1..Len(cycles) :
          (cycles[c].pc = "validate" /\ validateData(cycles[c].rawData).isValid)
              => LET results == processData(cycles[c].rawData)
                 IN  \A i \in 1..Len(results) :
                         LET d    == PairData(cycles[c].rawData, results[i].pair)
                             kept == removeOutliers(d)
                         IN  lastPrices'[results[i].pair].outliers =
                                 SelectSeq(d, LAMBDA x : \A j \in 1..Len(kept) : kept[j] # x)]_vars

\* C15: a cycle that fails and leaves errorCount below retryAttempts does not
\* stop the controller: isRunning is left as it was and, if the cycle was a
\* scheduled one and the controller runs, the next timer is armed; with the
\* schedule left to itself a later scheduled cycle then begins (as long as the
\* model's bound on the number of cycles allows one).
C15_FailureBelowThresholdKeepsRunning ==
    /\ [][\A c \in 1..Len(cycles) :
             (EndsInFailure(c) /\ errorCount' < retryAttempts)
                 => /\ isRunning' = isRunning
                    /\ ~cycles'[c].threw
                    /\ (cycles[c].trigger = "timer" /\ isRunning)
                           => (updateTimer' = c /\ timers' = timers \cup {c})]_vars
    /\ (/\ cycles # <<>> /\ Len(cycles) < MaxCycles
        /\ cycles[Len(cycles)].outcome = "failure" /\ ~cycles[Len(cycles)].threw)
           ~> (cycles # <<>> /\ cycles[Len(cycles)].trigger = "timer"
                             /\ InFlight(Len(cycles)))

\* C15 witness: a scheduled cycle failed below the threshold, the controller
\* still runs and the timer armed after it has fired and begun the next cycle.
C15_Witness ==
    \E c \in 1..Len(cycles) :
        /\ cycles[c].trigger = "timer" /\ cycles[c].outcome = "failure" /\ ~cycles[c].threw
        /\ errorCount < retryAttempts
        /\ isRunning
        /\ updateTimer = c
        /\ Len(cycles) > c /\ cycles[c + 1].trigger = "timer"

\* a price of GatePrices in halves of a unit
Halves(price) == price.num * (2 \div price.den)

\* C16: shouldUpdate(previous, current) is true exactly when
\* |current - previous| / previous * 100 >= deviationThreshold, a move of
\* exactly the threshold included; with previous = 100 and threshold 1,
\* current = 100.5 gives false and current = 101.5 gives true.
C16_GateIsDeviationAtLeastThreshold ==
    call.fn = "shouldUpdate" =>
        LET previous  == call.args[1]
            current   == call.args[2]
            threshold == priceConfig.deviationThreshold
            move      == Abs(Halves(current) - Halves(previous))
        IN  /\ call.result = (move * 100 >= threshold * Halves(previous))
            /\ (move * 100 = threshold * Halves(previous)) => call.result
            /\ (previous = Frac(100, 1) /\ threshold = 1 /\ current = Frac(201, 2))
                   => ~call.result
            /\ (previous = Frac(100, 1) /\ threshold = 1 /\ current = Frac(203, 2))
                   => call.result

\* C16 witness: shouldUpdate was called with a move of exactly the threshold (100
\* to 101 at 1 percent) and answered true.
C16_Witness ==
    /\ call.fn = "shouldUpdate"
    /\ priceConfig.deviationThreshold = 1
    /\ call.args = <<Frac(100, 1), Frac(101, 1)>>
    /\ call.result

\* C17: when the threshold check of submitToBlockchain withholds the commit, no
\* transaction is sent, the cycle's result is "skipped" and the cycle counts as a
\* success: errorCount is unchanged, totalUpdates grows by 1 and lastUpdateTime
\* is set to the current time.
C17_GateSkipIsSuccess ==
    [][\A c \in 1..Len(cycles) :
          (/\ cycles[c].pc = "validate"
           /\ validateData(cycles[c].rawData).isValid
           /\ processData(cycles[c].rawData) # <<>>
           /\ LET results == processData(cycles[c].rawData)
              IN  GateDecision(StoreResults(lastPrices, results), results[1]) = "skipped")
              => /\ cycles'[c].pc = "done"
                 /\ cycles'[c].txHash = "skipped"
                 /\ cycles'[c].outcome = "success"
                 /\ errorCount' = errorCount
                 /\ totalUpdates' = totalUpdates + 1
                 /\ lastUpdateTime' = now']_vars

\* C17 witness: after an earlier failure a scheduled cycle ended with "skipped";
\* it is counted in totalUpdates, lastUpdateTime is the time it ended and
\* errorCount still holds the earlier failure.
C17_Witness ==
    \E c \in 1..Len(cycles) :
        /\ cycles[c].pc = "done" /\ cycles[c].txHash = "skipped"
        /\ cycles[c].outcome = "success"
        /\ errorCount = 1 /\ totalUpdates = 1
        /\ lastUpdateTime = now /\ lastUpdateTime > StartTime
        /\ cycles[c].trigger = "timer"

\* C18: calculateWeightedAverage returns sum(price_i * weight_i) / sum(weight_i),
\* weight_i being the source's configured weight, and 1 only for a source with no
\* configured weight; it returns 0 when the total weight is 0; (100, w = 1) and
\* (300, w = 3) give 250.
C18_WeightedAverageUsesConfiguredWeights ==
    call.fn = "calculateWeightedAverage" =>
        LET data   == call.args[1]
            w(i)   == IF data[i].source \in DOMAIN priceConfig.weights
                      THEN priceConfig.weights[data[i].source] ELSE 1
            total  == SumSeq([i \in 1..Len(data) |-> w(i)])
            sum    == SumSeq([i \in 1..Len(data) |-> data[i].price * w(i)])
        IN  /\ total = 0 => call.result = Frac(0, 1)
            /\ total > 0 => call.result.num * total = sum * call.result.den
            /\ (/\ Len(data) = 2
                /\ data[1].price = 100 /\ w(1) = 1
                /\ data[2].price = 300 /\ w(2) = 3) => call.result = Frac(250, 1)

\* x is the k-th smallest of values: fewer than k values are below x and at
\* least k are at or below it
IsKthSmallest(values, k, x) ==
    /\ \E i \in 1..Len(values) : values[i] = x
    /\ Cardinality({i \in 1..Len(values) : values[i] < x}) < k
    /\ Cardinality({i \in 1..Len(values) : values[i] <= x}) >= k

\* C19: calculateMedian returns the middle value of the sorted values for an odd
\* count and the mean of the two middle values for an even count, whatever the
\* order of its input; [100, 200, 300] gives 200 and [100, 200] gives 150.
C19_MedianOfSortedValues ==
    call.fn = "calculateMedian" =>
        LET values == call.args[1]
            n      == Len(values)
            half   == n \div 2
            range  == {values[i] : i \in 1..n}
        IN  /\ (n % 2 = 1) =>
                   \E x \in range :
                       IsKthSmallest(values, half + 1, x) /\ call.result = Frac(x, 1)
            /\ (n % 2 = 0) =>
                   \E a, b \in range :
                       /\ IsKthSmallest(values, half, a)
                       /\ IsKthSmallest(values, half + 1, b)
                       /\ call.result = Frac(a + b, 2)
            /\ values \in {<<100, 200, 300>>, <<300, 100, 200>>, <<200, 300, 100>>}
                   => call.result = Frac(200, 1)
            /\ values \in {<<100, 200>>, <<200, 100>>} => call.result = Frac(150, 1)

\* C19 witness: calculateMedian was called on three values that are not in
\* ascending order and returned the middle one.
C19_Witness ==
    /\ call.fn = "calculateMedian"
    /\ call.args = << <<300, 100, 200>> >>
    /\ call.result = Frac(200, 1)

\* C20: from a group of more than 2 observations whose standard deviation is not
\* 0, removeOutliers drops exactly the observations whose z-score
\* |price - mean| / standard deviation is greater than outlierThreshold, and
\* keeps one whose z-score equals it.  With n prices of sum S, mean = S / n and
\* variance = sum((n * v - S)^2) / n^3, so z > threshold exactly when
\* n * (n * price - S)^2 > threshold^2 * sum((n * v - S)^2).
C20_DropsExactlyAboveThreshold ==
    (call.fn = "removeOutliers" /\ Len(call.args[1]) > 2) =>
        LET data      == call.args[1]
            n         == Len(data)
            S         == SumSeq([i \in 1..n |-> data[i].price])
            spread    == SumSeq([i \in 1..n |-> (n * data[i].price - S) * (n * data[i].price - S)])
            threshold == priceConfig.outlierThreshold
            Above(d)  == n * (n * d.price - S) * (n * d.price - S) > threshold * threshold * spread
        IN  spread # 0 => call.result = SelectSeq(data, LAMBDA d : ~Above(d))

\* C20 witness: removeOutliers was called with threshold 2 on four observations
\* at 1000 and one at 1005, whose z-score is exactly 2, and kept all five.
C20_Witness ==
    /\ call.fn = "removeOutliers"
    /\ priceConfig.outlierThreshold = 2
    /\ PricesOf(call.args[1]) = <<1000, 1000, 1000, 1000, 1005>>
    /\ call.result = call.args[1]

\* C21: with outlierThreshold 2, removeOutliers returns a group of exactly 3
\* observations whose prices are not all identical unchanged, as for
\* {99, 100, 150} and {99, 100, 500}.
C21_ThreeObservationsAllKept ==
    (/\ call.fn = "removeOutliers"
     /\ priceConfig.outlierThreshold = 2
     /\ Len(call.args[1]) = 3
     /\ \E i, j \in 1..3 : call.args[1][i].price # call.args[1][j].price)
        => call.result = call.args[1]

\* C21 witness: removeOutliers was called with threshold 2 on observations at 99,
\* 100 and 500 and returned all three.
C21_Witness ==
    /\ call.fn = "removeOutliers"
    /\ priceConfig.outlierThreshold = 2
    /\ PricesOf(call.args[1]) = <<99, 100, 500>>
    /\ Len(call.result) = 3

\* C29: removeOutliers returns a group of at most 2 observations unchanged, the
\* same observations in the same order, whatever their prices and the threshold.
C29_ShortGroupsUnchanged ==
    (call.fn = "removeOutliers" /\ Len(call.args[1]) <= 2) => call.result = call.args[1]

\* C29 witness: removeOutliers was called with threshold 1 on two observations
\* at different prices, the higher one first, and returned them as they were.
C29_Witness ==
    /\ call.fn = "removeOutliers"
    /\ priceConfig.outlierThreshold = 1
    /\ PricesOf(call.args[1]) = <<1005, 1000>>
    /\ PricesOf(call.result) = <<1005, 1000>>

\* the square of the coefficient of variation stddev / mean of the prices of data
CoefficientSq(data) ==
    Frac(SquaredDiffs(PricesOf(data)), Len(data) * SumSeq(PricesOf(data)) * SumSeq(PricesOf(data)))

\* C22: for a group with positive prices calculateConfidence returns
\* max(min(count / minSourcesRequired, 1) * 100 - min(CV * 50, 30), 0): a value
\* a - sqrt(b) that is at least 0 and at most 100, and that for groups of the
\* same size does not increase when CV increases.
C22_ConfidenceBoundedAndMonotone ==
    call.fn = "calculateConfidence" =>
        LET data    == call.args[1]
            r       == call.result
            zero    == Surd(Frac(0, 1), Frac(0, 1))
            cv      == CoefficientSq(data)
            base    == IF Len(data) >= priceConfig.minSourcesRequired THEN Frac(100, 1)
                       ELSE Frac(100 * Len(data), priceConfig.minSourcesRequired)
            penalty == IF FracLeq(Frac(2500 * cv.num, cv.den), Frac(900, 1))
                       THEN Frac(2500 * cv.num, cv.den) ELSE Frac(900, 1)
        IN  /\ r.a.num >= 0 /\ r.b.num >= 0
            /\ FracLeq(Frac(r.b.num, r.b.den), Frac(r.a.num * r.a.num, r.a.den * r.a.den))
            /\ FracLeq(r.a, Frac(100, 1))
            /\ (r = zero) = FracLeq(Frac(base.num * base.num, base.den * base.den), penalty)
            /\ r # zero => r = Surd(base, penalty)
            /\ \A other \in ConfidenceData :
                   (Len(other) = Len(data) /\ FracLeq(cv, CoefficientSq(other)))
                       => LET r2 == calculateConfidence(other)
                          IN  r2 = zero \/ (r # zero /\ r.a = r2.a /\ FracLeq(r.b, r2.b))

\* C22 witness: two observations where eight are required, prices 10 and 40: the
\* base 25 is below the capped penalty 30 and the confidence is 0
C22_Witness ==
    /\ call.fn = "calculateConfidence"
    /\ priceConfig.minSourcesRequired = 8
    /\ PricesOf(call.args[1]) = <<10, 40>>
    /\ call.result = Surd(Frac(0, 1), Frac(0, 1))

\* C27: validateData reports an error and isValid = false whenever a price of the
\* data is below its pair's minPrice or above its maxPrice; when the pair has
\* enough observations and every price lies in [minPrice, maxPrice], the bounds
\* included, there is no error.
C27_RangeCheckedInclusive ==
    call.fn = "validateData" =>
        LET data   == call.args[1]
            pair   == FindPair("BTC/USD")
            within == { i \in 1..Len(data) :
                            pair.minPrice <= data[i].price /\ data[i].price <= pair.maxPrice }
        IN  /\ within # 1..Len(data) => (~call.result.isValid /\ call.result.errors # <<>>)
            /\ (within = 1..Len(data) /\ Len(data) >= priceConfig.minSourcesRequired)
                   => (call.result.isValid /\ call.result.errors = <<>>)

\* C27 witness: of three observations the one above maxPrice is reported, the one
\* at maxPrice is not
C27_Witness ==
    /\ call.fn = "validateData"
    /\ priceConfig.minSourcesRequired = 2
    /\ PricesOf(call.args[1]) = <<1000000, 1000001, 999999>>
    /\ call.result.errors = <<[kind |-> "range", pair |-> "BTC/USD"]>>
    /\ ~call.result.isValid

\* data with every timestamp set to the present
Refreshed(data) == [i \in 1..Len(data) |-> [data[i] EXCEPT !.timestamp = now]]

\* what aggregation publishes, the observations themselves left out
Published(results) ==
    [i \in 1..Len(results) |->
        [pair |-> results[i].pair, price |-> results[i].price,
         sourceCount |-> results[i].sourceCount]]

\* C28: an observation older than maxPriceAge adds a warning where its pair is
\* validated and nothing else: validateData's verdict and errors and what
\* processData aggregates are those of the same data with fresh timestamps, and a
\* cycle whose data holds such an observation reaches submission with it counted.
C28_StaleIsWarningOnly ==
    \A c \in 1..Len(cycles) :
        cycles[c].pc \in {"validate", "submit"} =>
            LET raw    == cycles[c].rawData
                result == validateData(raw)
            IN  /\ result.isValid = validateData(Refreshed(raw)).isValid
                /\ result.errors = validateData(Refreshed(raw)).errors
                /\ Published(processData(raw)) = Published(processData(Refreshed(raw)))
                /\ \A i \in 1..Len(raw) :
                       (IsStale(raw[i]) /\ result.isValid)
                           => \E w \in 1..Len(result.warnings) :
                                  result.warnings[w] = [kind |-> "stale", pair |-> raw[i].pair,
                                                        source |-> raw[i].source]
                /\ cycles[c].pc = "submit"
                       => /\ result.isValid
                          /\ cycles[c].processedData = processData(raw)[1]

\* C28 witness: Binance and CoinMarketCap answer, CoinMarketCap's observation is
\* stale, and the cycle is at submission with both observations counted
C28_Witness ==
    \E c \in 1..Len(cycles) :
        /\ cycles[c].pc = "submit"
        /\ Len(cycles[c].rawData) = 2
        /\ IsStale(cycles[c].rawData[2])
        /\ cycles[c].rawData[2].source = "coinmarketcap"
        /\ cycles[c].processedData.sourceCount = 2

\* C23: getHealth is unhealthy when not running; else degraded when more than two
\* update intervals have passed since lastUpdateTime; else degraded when
\* errorCount is over retryAttempts / 2; else healthy.
C23_HealthCascade ==
    /\ ~isRunning => getHealth.status = "unhealthy"
    /\ (isRunning /\ now - lastUpdateTime > 2)
           => getHealth = [status |-> "degraded", reason |-> "Last update is stale"]
    /\ (isRunning /\ now - lastUpdateTime <= 2 /\ 2 * errorCount > retryAttempts)
           => getHealth = [status |-> "degraded", reason |-> "High error rate"]
    /\ (isRunning /\ now - lastUpdateTime <= 2 /\ 2 * errorCount <= retryAttempts)
           => getHealth.status = "healthy"

\* C23 witness: running, no cycle has succeeded yet and two have failed: both
\* reasons for degraded apply and the stale one is given
C23_Witness ==
    /\ isRunning
    /\ lastUpdateTime = 0
    /\ errorCount = 2
    /\ getHealth.reason = "Last update is stale"

\* C30: at any time at most one schedule timer is outstanding.
C30_AtMostOneTimer == Cardinality(timers) <= 1

\* C25: stop() on a running oracle leaves no schedule timer armed, and stop() on a
\* stopped oracle changes nothing, so that a second stop() has no effect.
C25_StopCancelsAndIsIdempotent ==
    /\ [](~isRunning => stop(Sched) = Sched)
    /\ [][(isRunning /\ ~isRunning' /\ cycles' = cycles)
             => (timers' = {} /\ updateTimer' = NoTimer /\ stop(Sched)' = Sched')]_vars

\* C24: forceUpdate() begins exactly one cycle at once, running or not, and
\* neither that call nor any step of the cycle it runs changes the armed timer or
\* its handle, unless the cycle fails with errorCount reaching retryAttempts.
C24_ForceLeavesTimer ==
    [][/\ Begins("force")
            => /\ cycles' = Append(cycles, NewCycle("force"))
               /\ timers' = timers /\ updateTimer' = updateTimer /\ isRunning' = isRunning
       /\ \A c \in 1..Len(cycles) :
              (cycles[c].trigger = "force" /\ cycles'[c] # cycles[c])
                  => \/ timers' = timers /\ updateTimer' = updateTimer
                     \/ EndsInFailure(c) /\ errorCount' >= retryAttempts]_vars

\* C24 witness: the oracle was started, a forced cycle has failed below the
\* threshold and the timer armed by start() is still the armed one
C24_Witness ==
    /\ Len(cycles) = 2
    /\ cycles[1].trigger = "start" /\ cycles[1].pc = "done"
    /\ cycles[2].trigger = "force" /\ cycles[2].pc = "done" /\ cycles[2].outcome = "failure"
    /\ isRunning /\ timers = {1} /\ updateTimer = 1

\* C26: start() on a running oracle begins no cycle, arms no timer and leaves
\* isRunning, the counters, the table, lastUpdateTime and the armed timer as
\* they are.
C26_StartWhileRunningRejected ==
    [][(isRunning /\ call' # call /\ call'.fn = "start")
          => /\ cycles' = cycles
             /\ timers' = timers /\ updateTimer' = updateTimer
             /\ isRunning' /\ errorCount' = errorCount /\ totalUpdates' = totalUpdates
             /\ lastPrices' = lastPrices /\ lastUpdateTime' = lastUpdateTime]_vars

\* C26 witness: start() was called again on an oracle whose initial cycle is done
\* and whose timer is armed
C26_Witness ==
    /\ call.fn = "start"
    /\ isRunning
    /\ Len(cycles) = 1 /\ cycles[1].pc = "done"
    /\ timers = {1} /\ updateTimer = 1

\* C34: for attempt n >= 1 the delay lies between b = min(1000 * 2^(n-1), 30000)
\* and b + b / 10, so between 1000 and 33000, and b does not decrease with n.
C34_BackoffWithinJitter ==
    call.fn = "calculateRetryDelay" =>
        LET n == call.args[1]
            b(k) == IF 1000 * 2^(k - 1) <= 30000 THEN 1000 * 2^(k - 1) ELSE 30000
        IN  /\ b(n) <= call.result /\ 10 * call.result <= 11 * b(n)
            /\ 1000 <= call.result /\ call.result <= 33000
            /\ \A k \in 1..n : b(k) <= b(n)

\* C34 witness: attempt 6, where 32000 is capped to 30000, with the largest jitter
C34_Witness ==
    call.fn = "calculateRetryDelay" /\ call.args = <<6, 9>> /\ call.result = 32700

\* C31: in a cycle the fetch stage makes at most retryAttempts attempts and none
\* after one has returned; sleep is awaited after every failed attempt but the
\* last; when the last attempt fails the cycle ends as one failure carrying that
\* attempt's error.
C31_FetchRetryLoop ==
    [][\A c \in 1..Len(cycles) :
          LET before == cycles[c]
              after  == cycles'[c]
          IN  /\ after.attempt \in 1..retryAttempts
              /\ after.slept = [i \in 1..(IF after.pc = "sleep" THEN after.attempt
                                          ELSE after.attempt - 1) |-> i]
              /\ before.pc \notin {"fetch", "sleep"}
                     => (after.attempt = before.attempt /\ after.pc \notin {"fetch", "sleep"})
              /\ (before.pc = "fetch" /\ after.pc = "done")
                     => /\ before.attempt = retryAttempts
                        /\ after.outcome = "failure"
                        /\ after.error = FetchError(retryAttempts)
                        /\ errorCount' = errorCount + 1
                        /\ totalUpdates' = totalUpdates
                        /\ Len(cycles') = Len(cycles)]_vars

\* C31 witness: a cycle whose three attempts failed, with two sleeps in between,
\* counted as one failure
C31_Witness ==
    /\ Len(cycles) = 1
    /\ cycles[1].pc = "done" /\ cycles[1].outcome = "failure"
    /\ cycles[1].attempt = 3 /\ cycles[1].slept = <<1, 2>>
    /\ cycles[1].error = "fetch attempt 3"
    /\ errorCount = 1

\* C32: a cycle in which every source failed for every pair, and which ends in
\* failure, made retryAttempts attempts of the fetch stage before it failed.
C32_SourceFailuresRetried ==
    [][\A c \in 1..Len(cycles) :
          (EndsInFailure(c) /\ cycles[c].pc = "validate" /\ cycles[c].rawData = <<>>)
              => cycles[c].attempt = retryAttempts]_vars

\* C33: a cycle reaches the ledger submission from its validated data only, once;
\* when the submission fails the cycle ends at once as a failure with the
\* ledger's error, errorCount goes up by exactly one, and a cycle that has ended
\* runs no stage again.
C33_LedgerFailureEndsCycle ==
    [][\A c \in 1..Len(cycles) :
          /\ (cycles'[c].pc = "submit" /\ cycles[c].pc # "submit") => cycles[c].pc = "validate"
          /\ cycles[c].pc = "submit"
                 => /\ cycles'[c].pc \in {"submit", "done"}
                    /\ (cycles'[c].pc = "done" /\ cycles'[c].outcome = "failure")
                           => /\ cycles'[c].error = "ledger"
                              /\ errorCount' = errorCount + 1
                              /\ totalUpdates' = totalUpdates
                              /\ Len(cycles') = Len(cycles)
          /\ cycles[c].pc = "done" => cycles'[c] = cycles[c]]_vars

\* C33 witness: the initial cycle failed at the ledger and is the only failure
C33_Witness ==
    /\ Len(cycles) = 1
    /\ cycles[1].pc = "done" /\ cycles[1].error = "ledger" /\ cycles[1].attempt = 1
    /\ errorCount = 1 /\ totalUpdates = 0

\* the cycles that have ended with the given outcome
Completed(outcome) ==
    { c \in 1..Len(cycles) : cycles[c].pc = "done" /\ cycles[c].outcome = outcome }

\* C37: totalUpdates is the number of cycles that ended in success and errorCount
\* the number that ended in failure, whatever began them, so their sum is the
\* number of completed cycles and neither ever goes down.
C37_CountersCountCycles ==
    /\ totalUpdates = Cardinality(Completed("success"))
    /\ errorCount = Cardinality(Completed("failure"))
    /\ \A c \in 1..Len(cycles) :
           cycles[c].pc = "done" => cycles[c].outcome \in {"success", "failure"}

\* C37 witness: a cycle begun by start(), one by the timer and one by forceUpdate()
\* have ended, two in failure and one in success
C37_Witness ==
    /\ Len(cycles) = 3
    /\ \A c \in 1..3 : cycles[c].pc = "done"
    /\ {cycles[c].trigger : c \in 1..3} = {"start", "timer", "force"}
    /\ totalUpdates = 1 /\ errorCount = 2

\* C40: on an oracle that was never started, forceUpdate() runs its cycle through
\* every stage, the ledger submission included, and at no point of it, nor when
\* it has ended in success or failure, is isRunning true or a timer armed.
C40_ForceWhileStoppedStaysStopped ==
    (\A c \in 1..Len(cycles) : cycles[c].trigger = "force")
        => /\ ~isRunning /\ timers = {} /\ updateTimer = NoTimer
           /\ \A c \in 1..Len(cycles) :
                  cycles[c].pc = "done"
                      => \/ cycles[c].outcome = "failure" /\ cycles[c].txHash = "none"
                         \/ cycles[c].outcome = "success" /\ cycles[c].txHash \in {"hash", "skipped"}

\* C40 witness: a forced cycle has committed to the ledger and the oracle is
\* stopped with no timer armed
C40_Witness ==
    /\ \E c \in 1..Len(cycles) :
           cycles[c].trigger = "force" /\ cycles[c].pc = "done" /\ cycles[c].txHash = "hash"
    /\ ~isRunning /\ timers = {}
    /\ totalUpdates >= 1

\* C35: the cycle a timer begins after a scheduled cycle starts one updateInterval
\* after that cycle's start, or, when that cycle took longer than updateInterval,
\* at the moment it finished (the timer is armed when the cycle finishes, and the
\* clock stands still while a timer is armed).
C35_NextCycleAfterStartPlusInterval ==
    [][\A h \in timers :
          (h \notin timers' /\ Begins("timer") /\ cycles[h].trigger = "timer")
              => LET previous == cycles[h].startTime
                     finished == now
                     next     == cycles'[Len(cycles')].startTime
                 IN  IF finished - previous > 1 THEN next = finished
                     ELSE next = previous + 1]_vars

\* C38: once TonOracleApplication.start() has failed, at whichever step, the
\* price oracle is not running: it is not active, no timeout is armed and no
\* cycle is in flight.
C38_FailedStartLeavesOracleStopped ==
    (call # NoCall /\ call.fn = "TonOracleApplication.start" /\ call.result = "failed")
        => /\ ~isRunning
           /\ timers = {}
           /\ \A c \in 1..Len(cycles) : cycles[c].pc = "done"

\* C39: sendTransaction never makes more than maxRetries attempts; it returns at
\* the first attempt that succeeds; the waits are retryDelay * 1, retryDelay * 2,
\* ... and there is one between two attempts, none after the last; with the
\* wallet initialised it throws only TRANSACTION_ERROR, after exactly maxRetries
\* failed attempts; without the wallet it throws before any attempt.
C39_TransferRetryLoop ==
    (call # NoCall /\ call.fn = "sendTransaction")
        => LET maxRetries == call.args[1]
               retryDelay == call.args[2]
               wallet     == call.args[3]
           IN  /\ call.attempt <= maxRetries
               /\ call.pc = "returned" => call.failed = call.attempt - 1
               /\ call.slept = [i \in 1..Len(call.slept) |-> retryDelay * i]
               /\ Len(call.slept) = IF call.pc = "sleep" THEN call.attempt
                                    ELSE IF call.attempt = 0 THEN 0 ELSE call.attempt - 1
               /\ (wallet /\ call.pc = "thrown")
                      => call.result = "TRANSACTION_ERROR" /\ call.failed = maxRetries
               /\ ~wallet => /\ call.pc = "thrown"
                             /\ call.result = "WALLET_NOT_INITIALIZED"
                             /\ call.attempt = 0

\* the moves of a cycle through performUpdate: fetch, then validation with
\* aggregation and the gate (one turn), then the commit, then the end
StageOrder ==
    { <<"fetch", "fetch">>, <<"fetch", "validate">>, <<"validate", "submit">>,
      <<"validate", "done">>, <<"submit", "done">>,
      <<"validate", "validate">>, <<"submit", "submit">>, <<"done", "done">> }

\* C36: a cycle goes from fetching to validation only when every request of every
\* active pair has returned or failed; its stages follow one another in the order
\* fetch, validate, aggregate, gate, commit; from validation on the observations
\* stay the ones fetched; aggregation runs only on valid observations (a failed
\* validation leaves the price table alone), the commit is awaited only for the
\* aggregate of those observations which the gate let through, and the ledger
\* answers only a cycle that is at its commit.
C36_FetchBarrierThenStagesInOrder ==
    [][\A c \in 1..Len(cycles) :
          LET old     == cycles[c]
              new     == cycles'[c]
              results == processData(old.rawData)
          IN  /\ <<old.pc, new.pc>> \in StageOrder
              /\ (old.pc = "fetch" /\ new.pc = "validate")
                     => new.fetched = Len(ActiveSlots)
              /\ (old.pc # "fetch" /\ new.pc # "done")
                     => new.rawData = old.rawData /\ new.fetched = old.fetched
              /\ (old.pc = "validate" /\ new.pc = "done" /\ new.error = "validation")
                     => ~validateData(old.rawData).isValid /\ lastPrices' = lastPrices
              /\ (old.pc = "validate" /\ new.pc = "submit")
                     => /\ validateData(old.rawData).isValid
                        /\ results # <<>>
                        /\ new.processedData = results[1]
                        /\ GateDecision(lastPrices', new.processedData) # "skipped"
              /\ (new.txHash = "hash" /\ old.txHash # "hash") => old.pc = "submit"]_vars

\* C36 witness: a cycle awaits its commit after all six requests settled, some of
\* them failed, and both pairs were observed.
C36_Witness ==
    \E c \in 1..Len(cycles) :
        /\ cycles[c].pc = "submit"
        /\ cycles[c].fetched = Len(ActiveSlots)
        /\ Len(cycles[c].rawData) < cycles[c].fetched
        /\ \A k \in PairKeys : \E i \in 1..Len(cycles[c].rawData) : cycles[c].rawData[i].pair = k

====
